---- MODULE Spec2Model ----
\* A model of the two sweep scripts of clinical-trial-matching-service:
\*   scripts/loader.py            (the record loader, "loader")
\*   scripts/test_cancer_types.py (the condition sweep, "sweep")
\* One behaviour is one invocation of one of the scripts; the loader may be
\* invoked a second time on the same records and results directory.
EXTENDS Integers, Sequences, FiniteSets, TLC

VARIABLES
    prog,            \* which script runs: "loader" or "sweep"
    pc,              \* position of the process: "start", "loop", "emit", "exited"
    exitStatus,      \* exit status of the process once pc = "exited", else -1
    run,             \* 1 for the first invocation, 2 for the re-run (loader)
    \* ---- loader.py
    extensive,       \* args.extensive
    skip,            \* args.skip
    results_directory, \* "" when none was supplied, else the directory
    records,         \* sorted list of record names (file names less ".json")
    n,               \* index into Units of the unit the loops are at
    total_runs,      \* loader.py total_runs
    errors,          \* loader.py errors
    files,           \* the results directory: file name -> rows written
    summaries,       \* one entry per run of exit_handler: the lines it printed
    \* ---- test_cancer_types.py
    cancer_type,     \* args.cancer
    fileArg,         \* whether -f was supplied
    directoryArg,    \* whether -d was supplied
    data,            \* the parsed cancerTypes.json list
    m,               \* index into the filtered list
    results,         \* status code -> rows
    timeouts,        \* rows of the dispatches that timed out
    workbook,        \* the workbook written by workbook.close(), <<>> if none
    \* ---- history (not program state)
    posts,           \* the units POSTed by this process, in order
    last,            \* what the latest step was
    answer,          \* the response the latest step got, NoAnswer if none
    request,         \* the document the latest step POSTed, <<>> if none
    faults,          \* how many non-default service outcomes happened so far
    prior            \* what the first invocation did and left behind

vars == <<prog, pc, exitStatus, run, extensive, skip, results_directory, records,
          n, total_runs, errors, files, summaries,
          cancer_type, fileArg, directoryArg, data, m, results, timeouts,
          workbook, posts, last, answer, request, faults, prior>>

loaderVars == <<extensive, skip, results_directory, records, n, total_runs,
                errors, files, summaries, prior, run>>

sweepVars == <<cancer_type, fileArg, directoryArg, data, m, results, timeouts,
               workbook>>

\* ------------------------------------------------------------------ bounds

\* Largest `total` (and longest `entry` list) the service answers with.
MaxTotal == 2
\* Number of service outcomes per behaviour of the loader that are not the
\* plain "200, total = 0" answer.
MaxFaults == 2
\* Number of records in the record directory of an extensive sweep.
MaxExtensiveRecords == 1
\* Number of units of a sweep that is invoked a second time.
MaxRerunUnits == 3
\* Longest cancerTypes.json list.
MaxData == 3

\* ------------------------------------------------------------- environment

\* Record names the record directory may hold, in sorted order.
RecordNames == <<"p1", "p2">>

\* The searches the service answers with anything but "200, total = 0":
\* those within the first radius of the zip code of the narrow sweep and of
\* the zip code that the extensive list holds twice.
HotZips == {"26506", "75001"}
HotRadii == {"20"}

\* requests.codes.ok
OkStatus == 200

\* Status codes the service answers with.
Statuses == {200, 500}

\* The `entry` list of a response with k matches: k distinct identifiers.
EntryList(k) == [i \in 1..k |-> i]

\* JSON bodies of a response. parse = FALSE: response.json() raises;
\* hasTotal, hasEntry = FALSE: the body has no `total`, no `entry` field.
Bodies ==
    {[parse |-> FALSE, hasTotal |-> FALSE, total |-> 0, hasEntry |-> FALSE, entry |-> <<>>]}
    \cup {[parse |-> TRUE, hasTotal |-> FALSE, total |-> 0, hasEntry |-> FALSE, entry |-> <<>>]}
    \cup {[parse |-> TRUE, hasTotal |-> TRUE, total |-> t, hasEntry |-> FALSE, entry |-> <<>>] :
            t \in 1..MaxTotal}
    \cup {[parse |-> TRUE, hasTotal |-> TRUE, total |-> t, hasEntry |-> TRUE,
            entry |-> EntryList(k)] : t \in 0..MaxTotal, k \in 0..MaxTotal}

Responses == [status : Statuses, body : Bodies]

\* The class of an answer, as the history records it.
Outcome(r) ==
    IF r.status # OkStatus THEN "not_ok"
    ELSE IF ~r.body.parse THEN "bad_body"
    ELSE IF ~r.body.hasTotal THEN "no_total"
    ELSE IF r.body.total = 0 THEN "empty"
    ELSE IF ~r.body.hasEntry THEN "no_entry"
    ELSE "results"

\* The answer that costs no fault.
PlainResponse ==
    [status |-> OkStatus,
     body |-> [parse |-> TRUE, hasTotal |-> TRUE, total |-> 0, hasEntry |-> TRUE,
               entry |-> <<>>]]

\* The value of `answer` after a step that got no response.
NoAnswer ==
    [status |-> 0,
     body |-> [parse |-> FALSE, hasTotal |-> FALSE, total |-> 0, hasEntry |-> FALSE,
               entry |-> <<>>]]

\* ---------------------------------------------------------------- loader.py

\* loader.py zipCodes.
ExtensiveZipCodes ==
    <<"25438", "26506", "26330", "26101", "25401", "26003", "26038", "24740",
      "15401", "26726", "90211", "55455", "55101", "72205", "26506", "19104",
      "92868", "60637", "59102", "85364", "33606", "80045", "06102", "31202",
      "31405", "31904", "31501", "30303", "75390">>

zipCodes(ext) == IF ext THEN ExtensiveZipCodes ELSE <<"75001">>

\* loader.py radii.
radii(ext) == IF ext THEN <<"20", "50", "100">> ELSE <<"20">>

\* A nesting with the radii loop outside the zip code loop.
CombinationAtRadiiOutside(ext, k) ==
    [zipCode |-> zipCodes(ext)[((k - 1) % Len(zipCodes(ext))) + 1],
     radius |-> radii(ext)[((k - 1) \div Len(zipCodes(ext))) + 1]]

\* The k-th (zipCode, radius) combination in the order of the two outer loops.
CombinationAt(ext, k) ==
    [zipCode |-> zipCodes(ext)[((k - 1) \div Len(radii(ext))) + 1],
     radius |-> radii(ext)[((k - 1) % Len(radii(ext))) + 1]]

NumCombinations(ext) == Len(zipCodes(ext)) * Len(radii(ext))

\* The combinations the two outer loops enumerate, in order.
Combinations(ext) == [k \in 1..NumCombinations(ext) |-> CombinationAt(ext, k)]

\* The k-th unit of work in the order of the three nested loops.
UnitAt(ext, recs, k) ==
    [record |-> recs[((k - 1) % Len(recs)) + 1],
     radius |-> CombinationAt(ext, ((k - 1) \div Len(recs)) + 1).radius,
     zipCode |-> CombinationAt(ext, ((k - 1) \div Len(recs)) + 1).zipCode]

NumUnits(ext, recs) == NumCombinations(ext) * Len(recs)

\* The units of work the three nested loops enumerate, in order.
Units(ext, recs) == [k \in 1..NumUnits(ext, recs) |-> UnitAt(ext, recs, k)]

\* loader.py fileName (less the results directory, which is fixed in a run).
fileName(u) == u.record \o "_r" \o u.radius \o "_z" \o u.zipCode \o ".csv"

\* The sorted lists glob and sort can yield: the sublists of RecordNames.
RecordLists ==
    LET Sorted(S) ==
            CHOOSE q \in [1..Cardinality(S) -> S] :
                \A i, j \in 1..Cardinality(S) : i < j => q[i] < q[j]
    IN  {[i \in 1..Cardinality(S) |-> RecordNames[Sorted(S)[i]]] :
            S \in SUBSET (1..Len(RecordNames))}

\* A skip decision that forgets to look for the file.
shouldSkipIgnoringFile(skipFlag, file_exists) == skipFlag

\* A skip decision that never skips.
shouldSkipNever(skipFlag, file_exists) == FALSE

\* A skip decision that forgets to look at the flag.
shouldSkipIgnoringFlag(skipFlag, file_exists) == file_exists

\* loader.py line 106: the skip decision.
shouldSkip(skipFlag, file_exists) == skipFlag /\ file_exists

\* loader.py lines 124-125: the entry appended to errors.
errorEntry(u) == [record |-> u.record, radius |-> u.radius, zipCode |-> u.zipCode]

\* A failure handler that forgets to record the unit.
appendErrorDropped(errs, u) == errs

\* loader.py lines 124, 130, 148: errors.append.
appendError(errs, u) == Append(errs, errorEntry(u))

\* A writer that emits the rows last entry first.
writeRowsReversed(entry) == [i \in 1..Len(entry) |-> <<entry[Len(entry) + 1 - i]>>]

\* loader.py lines 140-144: the rows written, one per entry of the response.
writeRows(entry) == [i \in 1..Len(entry) |-> <<entry[i]>>]

\* loader.py lines 137-144: the results directory after a success response.
\* open(fileName, 'w+') creates or truncates the file before `entry` is read.
filesAfterOk(fs, u, body) ==
    IF body.total > 0
    THEN (fileName(u) :> (IF body.hasEntry THEN writeRows(body.entry) ELSE <<>>)) @@ fs
    ELSE fs

\* A handler that writes the CSV without looking at the status.
filesAfterResponseAnyStatus(fs, u, r) ==
    IF r.body.parse /\ r.body.hasTotal
    THEN filesAfterOk(fs, u, r.body)
    ELSE fs

\* loader.py lines 134-149: the results directory after any response.
filesAfterResponse(fs, u, r) ==
    IF r.status = OkStatus /\ r.body.parse /\ r.body.hasTotal
    THEN filesAfterOk(fs, u, r.body)
    ELSE fs

\* A handler that survives a body that does not parse.
loaderRaisesOnMissingFieldOnly(r) ==
    /\ r.status = OkStatus
    /\ r.body.parse
    /\ \/ ~r.body.hasTotal
       \/ r.body.total > 0 /\ ~r.body.hasEntry

\* loader.py lines 135-144: the responses whose processing raises an exception
\* that nothing catches (json(), ["total"], ["entry"]).
loaderRaises(r) ==
    /\ r.status = OkStatus
    /\ \/ ~r.body.parse
       \/ ~r.body.hasTotal
       \/ r.body.total > 0 /\ ~r.body.hasEntry

\* The content of a record file, as json.load returns it.
RecordDocument(name) ==
    [resourceType |-> "Bundle", type |-> "batch",
     entry |-> <<[resourceType |-> "Patient", id |-> name]>>]

\* loader.py lines 77-93: the Parameters component of one combination.
parameter(zipCode, radius) ==
    [resourceType |-> "Parameters", id |-> "0",
     parameter |-> <<[name |-> "zipCode", valueString |-> zipCode],
                     [name |-> "travelRadius", valueString |-> radius]>>]

\* A builder that keeps one loaded document and appends to it at every POST.
buildRequestCached(u) ==
    [resourceType |-> RecordDocument(u.record).resourceType,
     type |-> "collection",
     entry |-> RecordDocument(u.record).entry
               \o [i \in 1..(Len(posts) + 1) |-> parameter(u.zipCode, u.radius)]]

\* loader.py lines 110-115: the document POSTed for a unit.
buildRequest(u) ==
    LET loaded == RecordDocument(u.record)
    IN  [loaded EXCEPT !.entry = Append(@, parameter(u.zipCode, u.radius)),
                     !.type = "collection"]

\* The value of `request` after a step that POSTed nothing.
NoRequest == [resourceType |-> "", type |-> "", entry |-> <<>>]

\* loader.py lines 152-160: what exit_handler prints.
exit_handler(runs, errs) ==
    <<[num_of_errors |-> Len(errs), total_runs |-> runs]>>
    \o (IF Len(errs) > 0 THEN <<[itemized |-> errs]>> ELSE <<>>)

\* The unit the loops are at.
CurrentUnit == UnitAt(extensive, records, n)

InLoaderLoop ==
    /\ prog = "loader"
    /\ pc = "loop"
    /\ n <= NumUnits(extensive, records)

\* Whether the service may give the unit an answer that is not the plain one.
MayFault(u) ==
    faults < MaxFaults /\ u.zipCode \in HotZips /\ u.radius \in HotRadii

\* loader.py lines 97-108 that every iteration runs before the skip decision.
Reached ==
    /\ total_runs' = total_runs + 1
    /\ n' = n + 1

AllOutcomes ==
    {"timeout", "connection", "not_ok", "bad_body", "no_total", "no_entry",
     "results", "empty"}

\* The units this process POSTed with one of the outcomes.
PostedWith(outcomes) ==
    {posts[i].unit : i \in {j \in 1..Len(posts) : posts[j].outcome \in outcomes}}

NoPrior == [posts |-> {}, responded |-> {}, results |-> {}, files |-> {}, order |-> <<>>]

\* loader.py lines 31-74: the results directory check, then the sweep's set-up.
LoaderStart ==
    /\ prog = "loader"
    /\ pc = "start"
    /\ IF results_directory = ""
       THEN /\ pc' = "exited"
            /\ exitStatus' = 0
            /\ last' = "usage"
            /\ UNCHANGED <<errors, total_runs, n>>
       ELSE /\ pc' = "loop"
            /\ errors' = <<>>
            /\ total_runs' = 0
            /\ n' = 1
            /\ last' = "start"
            /\ UNCHANGED exitStatus
    /\ answer' = NoAnswer
    /\ request' = NoRequest
    /\ UNCHANGED <<prog, run, extensive, skip, results_directory, records,
                   files, summaries, posts, faults, prior>>
    /\ UNCHANGED sweepVars

\* loader.py lines 96-108: an iteration that skips the unit.
LoaderSkip ==
    /\ InLoaderLoop
    /\ shouldSkip(skip, fileName(CurrentUnit) \in DOMAIN files)
    /\ Reached
    /\ last' = "skip"
    /\ answer' = NoAnswer
    /\ request' = NoRequest
    /\ UNCHANGED <<prog, pc, exitStatus, run, extensive, skip, results_directory,
                   records, errors, files, summaries, posts, faults, prior>>
    /\ UNCHANGED sweepVars

\* loader.py lines 96-126: an iteration whose POST times out.
LoaderTimeout ==
    /\ InLoaderLoop
    /\ ~shouldSkip(skip, fileName(CurrentUnit) \in DOMAIN files)
    /\ MayFault(CurrentUnit)
    /\ Reached
    /\ errors' = appendError(errors, CurrentUnit)
    /\ posts' = Append(posts, [unit |-> CurrentUnit, outcome |-> "timeout", at |-> n])
    /\ faults' = faults + 1
    /\ last' = "timeout"
    /\ answer' = NoAnswer
    /\ request' = buildRequest(CurrentUnit)
    /\ UNCHANGED <<prog, pc, exitStatus, run, extensive, skip, results_directory,
                   records, files, summaries, prior>>
    /\ UNCHANGED sweepVars

\* loader.py lines 96-120, 127-132: an iteration whose POST cannot connect.
LoaderConnectionError ==
    /\ InLoaderLoop
    /\ ~shouldSkip(skip, fileName(CurrentUnit) \in DOMAIN files)
    /\ MayFault(CurrentUnit)
    /\ Reached
    /\ errors' = appendError(errors, CurrentUnit)
    /\ posts' = Append(posts, [unit |-> CurrentUnit, outcome |-> "connection", at |-> n])
    /\ faults' = faults + 1
    /\ last' = "connection"
    /\ answer' = NoAnswer
    /\ request' = buildRequest(CurrentUnit)
    /\ UNCHANGED <<prog, pc, exitStatus, run, extensive, skip, results_directory,
                   records, files, summaries, prior>>
    /\ UNCHANGED sweepVars

\* loader.py lines 96-120, 134-149: an iteration whose POST is answered.
LoaderResponse ==
    /\ InLoaderLoop
    /\ ~shouldSkip(skip, fileName(CurrentUnit) \in DOMAIN files)
    /\ \E r \in Responses :
        /\ r # PlainResponse => MayFault(CurrentUnit)
        /\ faults' = IF r = PlainResponse THEN faults ELSE faults + 1
        /\ posts' = Append(posts, [unit |-> CurrentUnit, outcome |-> Outcome(r),
                                   at |-> n])
        /\ answer' = r
        /\ request' = buildRequest(CurrentUnit)
        /\ total_runs' = total_runs + 1
        /\ files' = filesAfterResponse(files, CurrentUnit, r)
        /\ errors' = IF r.status = OkStatus
                      THEN errors
                      ELSE appendError(errors, CurrentUnit)
        /\ last' = IF Outcome(r) \in {"results", "empty"} THEN "ok" ELSE Outcome(r)
        /\ IF loaderRaises(r)
           THEN \* the exception propagates: the process dies
                /\ pc' = "exited"
                /\ exitStatus' = 1
                /\ UNCHANGED n
           ELSE /\ n' = n + 1
                /\ UNCHANGED <<pc, exitStatus>>
    /\ UNCHANGED <<prog, run, extensive, skip, results_directory, records,
                   summaries, prior>>
    /\ UNCHANGED sweepVars

\* loader.py lines 75, 152-163: the loops end, exit_handler is registered with
\* the final total_runs and errors, and runs as the interpreter exits.
LoaderFinish ==
    /\ prog = "loader"
    /\ pc = "loop"
    /\ n > NumUnits(extensive, records)
    /\ summaries' = Append(summaries, exit_handler(total_runs, errors))
    /\ pc' = "exited"
    /\ exitStatus' = 0
    /\ last' = "finish"
    /\ answer' = NoAnswer
    /\ request' = NoRequest
    /\ UNCHANGED <<prog, run, extensive, skip, results_directory, records, n,
                   total_runs, errors, files, posts, faults, prior>>
    /\ UNCHANGED sweepVars

\* The same loader command line is invoked again: same arguments, same records,
\* same results directory.
LoaderRerun ==
    /\ prog = "loader"
    /\ pc = "exited"
    /\ run = 1
    /\ results_directory # ""
    /\ NumUnits(extensive, records) <= MaxRerunUnits
    /\ run' = 2
    /\ pc' = "start"
    /\ exitStatus' = -1
    /\ prior' = [posts |-> PostedWith(AllOutcomes),
                 responded |-> PostedWith(AllOutcomes \ {"timeout", "connection"}),
                 results |-> PostedWith({"results", "no_entry"}),
                 files |-> DOMAIN files,
                 order |-> [i \in 1..Len(posts) |-> [unit |-> posts[i].unit,
                                                     at |-> posts[i].at]]]
    /\ posts' = <<>>
    /\ summaries' = <<>>
    /\ errors' = <<>>
    /\ total_runs' = 0
    /\ n' = 1
    /\ last' = "rerun"
    /\ answer' = NoAnswer
    /\ request' = NoRequest
    /\ UNCHANGED <<prog, extensive, skip, results_directory, records, files, faults>>
    /\ UNCHANGED sweepVars


InitLoader ==
    /\ prog = "loader"
    /\ pc = "start"
    /\ exitStatus = -1
    /\ run = 1
    /\ extensive \in BOOLEAN
    /\ skip \in BOOLEAN
    /\ results_directory \in {"", "out"}
    /\ records \in RecordLists
    /\ extensive => Len(records) <= MaxExtensiveRecords
    /\ n = 1
    /\ total_runs = 0
    /\ errors = <<>>
    /\ files = <<>>
    /\ summaries = <<>>
    /\ cancer_type = "none"
    /\ fileArg = FALSE
    /\ directoryArg = FALSE
    /\ data = <<>>
    /\ m = 1
    /\ results = <<>>
    /\ timeouts = <<>>
    /\ workbook = <<>>
    /\ posts = <<>>
    /\ last = "init"
    /\ answer = NoAnswer
    /\ request = NoRequest
    /\ faults = 0
    /\ prior = NoPrior

\* ------------------------------------------------------- test_cancer_types.py

\* Entries the cancerTypes.json list is made of.
CancerEntries ==
    {[code |-> "C1", display |-> "D1", system |-> "S1", cancerType |-> <<"lung">>],
     [code |-> "C2", display |-> "D2", system |-> "S2",
      cancerType |-> <<"lung", "breast">>]}

\* Values of the `cancer` argument explored (argparse admits only its choices).
\* The `service` argument only selects the URL and is not modelled.
CancerChoices == {"lung", "breast"}

\* The lists of at most k entries.
DataLists(k) == UNION {[1..len -> CancerEntries] : len \in 0..k}

\* A filter that lets every entry through.
filterAcceptsAll(ct, entry) == TRUE

\* test_cancer_types.py lines 21-22.
filter_cancer_type(ct, entry) ==
    \E i \in DOMAIN entry["cancerType"] : entry["cancerType"][i] = ct

\* test_cancer_types.py line 124.
filtered_cancer_types ==
    SelectSeq(data, LAMBDA entry : filter_cancer_type(cancer_type, entry))

\* The row that identifies an entry: [code, display, system].
unitRow(entry) == <<entry["code"], entry["display"], entry["system"]>>

\* test_cancer_types.py line 135: timeouts.append.
appendTimeout(ts, entry) == Append(ts, unitRow(entry))

\* test_cancer_types.py lines 138-139: the status bucket is created when new.
withBucket(res, status) ==
    IF status \in DOMAIN res THEN res ELSE (status :> <<>>) @@ res

\* test_cancer_types.py line 143: the total recorded, 0 when the body has none.
totalOf(body) == IF body.hasTotal THEN body.total ELSE 0

\* A recording that replaces the status bucket by the new row.
recordResponseOverwriting(res, status, entry, body) ==
    (status :> <<unitRow(entry) \o <<totalOf(body)>>>>) @@ res

\* test_cancer_types.py lines 138-143: results after a parsed response.
recordResponse(res, status, entry, body) ==
    [withBucket(res, status) EXCEPT
        ![status] = Append(@, unitRow(entry) \o <<totalOf(body)>>)]

\* test_cancer_types.py lines 155-165: one sheet per status, a header row and
\* one row per study.
statusSheets(res) ==
    [st \in DOMAIN res |->
        <<<<"Code", "Display", "System", "Number of Results">>>> \o res[st]]

\* test_cancer_types.py lines 25-90: the document POSTed for an entry.
primary_request(code, display, system) ==
    [resourceType |-> "Bundle", type |-> "collection",
     entry |-> <<parameter("75390", "20"),
                 [resourceType |-> "Patient", id |-> "kyEmf3Wvg_isg-ZDpeiCU"],
                 [resourceType |-> "Condition",
                  coding |-> <<[system |-> system, code |-> code,
                                display |-> display]>>]>>]

\* The answers the sweep is given: it reads the status and `total` only, so
\* of the bodies that differ in `entry` alone one per total is kept.
SweepResponses ==
    {r \in Responses :
        r.body.hasTotal => (r.body.hasEntry /\ Len(r.body.entry) = r.body.total)}

CurrentEntry == filtered_cancer_types[m]

InSweepLoop ==
    /\ prog = "sweep"
    /\ pc = "loop"
    /\ m <= Len(filtered_cancer_types)

\* test_cancer_types.py lines 94-124: argument processing and the list's load.
\* os.path.expanduser(None) raises when -d is missing; without -f the local
\* path_to_cancer_types is read before it is assigned.
SweepStart ==
    /\ prog = "sweep"
    /\ pc = "start"
    /\ IF ~directoryArg
       THEN /\ pc' = "exited"
            /\ exitStatus' = 1
            /\ last' = "no_directory"
       ELSE IF ~fileArg
       THEN /\ pc' = "exited"
            /\ exitStatus' = 1
            /\ last' = "no_file"
       ELSE /\ pc' = "loop"
            /\ last' = "start"
            /\ UNCHANGED exitStatus
    /\ results' = <<>>
    /\ timeouts' = <<>>
    /\ m' = 1
    /\ answer' = NoAnswer
    /\ request' = NoRequest
    /\ UNCHANGED <<prog, cancer_type, fileArg, directoryArg, data, workbook,
                   posts, faults>>
    /\ UNCHANGED loaderVars

\* test_cancer_types.py lines 127-136: an iteration whose POST times out.
SweepTimeout ==
    /\ InSweepLoop
    /\ faults < MaxFaults
    /\ timeouts' = appendTimeout(timeouts, CurrentEntry)
    /\ m' = m + 1
    /\ posts' = Append(posts, [unit |-> unitRow(CurrentEntry), outcome |-> "timeout",
                               at |-> m])
    /\ faults' = faults + 1
    /\ last' = "timeout"
    /\ answer' = NoAnswer
    /\ request' = primary_request(CurrentEntry["code"], CurrentEntry["display"],
                                  CurrentEntry["system"])
    /\ UNCHANGED <<prog, pc, exitStatus, cancer_type, fileArg, directoryArg, data,
                   results, workbook>>
    /\ UNCHANGED loaderVars

\* test_cancer_types.py lines 127-131: an iteration whose POST cannot connect;
\* requests.ConnectionError is not caught and ends the process.
SweepConnectionError ==
    /\ InSweepLoop
    /\ faults < MaxFaults
    /\ pc' = "exited"
    /\ exitStatus' = 1
    /\ posts' = Append(posts, [unit |-> unitRow(CurrentEntry), outcome |-> "connection",
                               at |-> m])
    /\ faults' = faults + 1
    /\ last' = "connection"
    /\ answer' = NoAnswer
    /\ request' = primary_request(CurrentEntry["code"], CurrentEntry["display"],
                                  CurrentEntry["system"])
    /\ UNCHANGED <<prog, cancer_type, fileArg, directoryArg, data, m, results,
                   timeouts, workbook>>
    /\ UNCHANGED loaderVars

\* test_cancer_types.py lines 127-131, 138-143: an iteration whose POST is
\* answered.
SweepResponse ==
    /\ InSweepLoop
    /\ \E r \in SweepResponses :
        /\ r # PlainResponse => faults < MaxFaults
        /\ faults' = IF r = PlainResponse THEN faults ELSE faults + 1
        /\ posts' = Append(posts, [unit |-> unitRow(CurrentEntry), outcome |-> Outcome(r),
                                   at |-> m])
        /\ answer' = r
        /\ request' = primary_request(CurrentEntry["code"], CurrentEntry["display"],
                                      CurrentEntry["system"])
        /\ IF ~r.body.parse
           THEN \* response.json() raises after the bucket was created
                /\ results' = withBucket(results, r.status)
                /\ pc' = "exited"
                /\ exitStatus' = 1
                /\ last' = "bad_body"
                /\ UNCHANGED m
           ELSE /\ results' = recordResponse(results, r.status, CurrentEntry, r.body)
                /\ m' = m + 1
                /\ last' = IF r.body.hasTotal THEN "response" ELSE "no_total"
                /\ UNCHANGED <<pc, exitStatus>>
    /\ UNCHANGED <<prog, cancer_type, fileArg, directoryArg, data, timeouts,
                   workbook>>
    /\ UNCHANGED loaderVars

\* test_cancer_types.py lines 145-183: the workbook. With timeouts the Timeouts
\* sheet is written with the status loop's `index`, unbound when no status was
\* recorded, and with timeouts[0], a list, as a cell value, which xlsxwriter's
\* write() rejects: either way the process dies before workbook.close().
SweepEmit ==
    /\ prog = "sweep"
    /\ pc = "loop"
    /\ m > Len(filtered_cancer_types)
    /\ pc' = "exited"
    /\ IF Len(timeouts) > 0
       THEN /\ exitStatus' = 1
            /\ last' = "emit_failed"
            /\ UNCHANGED workbook
       ELSE /\ exitStatus' = 0
            /\ last' = "finish"
            /\ workbook' = <<[sheets |-> statusSheets(results), Timeouts |-> <<>>]>>
    /\ answer' = NoAnswer
    /\ request' = NoRequest
    /\ UNCHANGED <<prog, cancer_type, fileArg, directoryArg, data, m, results,
                   timeouts, posts, faults>>
    /\ UNCHANGED loaderVars

InitSweep ==
    /\ prog = "sweep"
    /\ pc = "start"
    /\ exitStatus = -1
    /\ run = 1
    /\ extensive = FALSE
    /\ skip = FALSE
    /\ results_directory = ""
    /\ records = <<>>
    /\ n = 1
    /\ total_runs = 0
    /\ errors = <<>>
    /\ files = <<>>
    /\ summaries = <<>>
    /\ cancer_type \in CancerChoices
    /\ fileArg \in BOOLEAN
    /\ directoryArg \in BOOLEAN
    /\ data \in DataLists(MaxData)
    /\ m = 1
    /\ results = <<>>
    /\ timeouts = <<>>
    /\ workbook = <<>>
    /\ posts = <<>>
    /\ last = "init"
    /\ answer = NoAnswer
    /\ request = NoRequest
    /\ faults = 0
    /\ prior = NoPrior

Init == InitLoader \/ InitSweep

Next ==
    \/ LoaderStart
    \/ LoaderSkip
    \/ LoaderTimeout
    \/ LoaderConnectionError
    \/ LoaderResponse
    \/ LoaderFinish
    \/ LoaderRerun
    \/ SweepStart
    \/ SweepTimeout
    \/ SweepConnectionError
    \/ SweepResponse
    \/ SweepEmit

Spec == Init /\ [][Next]_vars

\* ------------------------------------------------------------------ claims

\* The units POSTed by this process, without their outcomes.
PostedUnits == {posts[i].unit : i \in 1..Len(posts)}

\* How often this process POSTed unit u.
TimesPosted(u) == Cardinality({i \in 1..Len(posts) : posts[i].unit = u})

\* How often x occurs in the sequence q.
Occurrences(q, x) == Cardinality({i \in 1..Len(q) : q[i] = x})

\* C1: within one run of the loader no unit (record, zip code, radius) is
\* POSTed more than once, so each unit has at most one outcome, whatever the
\* mode and the skip flag.
C1_NoUnitDispatchedTwice ==
    prog = "loader" =>
        \A i, j \in 1..Len(posts) : posts[i].unit = posts[j].unit => i = j

\* C2: the enumeration yields |locations| x |radii| combinations in an
\* extensive sweep and the single combination (75001, 20) in a narrow one, and
\* the enumerated sequence of combinations holds no combination twice.
C2_EnumerationWithoutDuplicates ==
    (prog = "loader" /\ pc = "loop") =>
        LET C == Combinations(extensive)
        IN  /\ Len(C) = Len(zipCodes(extensive)) * Len(radii(extensive))
            /\ ~extensive => C = <<[zipCode |-> "75001", radius |-> "20"]>>
            /\ \A i, j \in 1..Len(C) : C[i] = C[j] => i = j

\* The list of failed units of the running script: errors or timeouts.
Failures == IF prog = "loader" THEN errors ELSE timeouts

\* The position of the running script's loop.
Position == IF prog = "loader" THEN n ELSE m

\* C3 as stated: after a re-run with skip enabled, every unit that got a
\* response in the earlier run (a success with total = 0 included) was not
\* POSTed again, and every unit that got none (timeout, connection failure)
\* was POSTed again.
C3_CompletedUnitsNeverRedispatched ==
    (prog = "loader" /\ run = 2 /\ skip /\ pc = "exited" /\ last = "finish") =>
        /\ \A u \in prior.responded : u \notin PostedUnits
        /\ \A u \in prior.posts \ prior.responded : u \in PostedUnits

\* C3 amended: the files of the results directory are those of the units that
\* some POST answered with a success and total > 0; and in a re-run with skip
\* enabled, of the units the loops have passed, those whose file the earlier
\* run left are not POSTed again and all the others (answered with total = 0
\* or a non-success status, timed out, not connected) are POSTed again.
C3_SkipFollowsResultFiles ==
    prog = "loader" =>
        /\ prior.files = {fileName(u) : u \in prior.results}
        /\ DOMAIN files = prior.files \cup {fileName(u) : u \in PostedWith({"results", "no_entry"})}
        /\ (run = 2 /\ skip /\ pc \in {"loop", "exited"}) =>
            LET P == PostedUnits
            IN  \A k \in 1..(n - 1) :
                    fileName(UnitAt(extensive, records, k)) \in prior.files
                        <=> UnitAt(extensive, records, k) \notin P

\* C3 witness: a finished re-run with skip enabled that skipped a unit whose
\* file the first run wrote and POSTed again a unit that had timed out.
C3_Witness ==
    /\ prog = "loader" /\ run = 2 /\ skip /\ pc = "exited" /\ last = "finish"
    /\ \E u \in prior.results : u \notin PostedUnits
    /\ \E u \in prior.posts \ prior.responded : u \in PostedUnits

\* C4: a POST that times out, in the loader and in the condition sweep, ends
\* no process: the unit is appended once to the list of failures and the loop
\* goes on with the unit that follows.
C4_TimeoutIsContained ==
    [][(last' = "timeout" /\ posts' # posts) =>
        /\ pc = "loop" /\ pc' = "loop" /\ exitStatus' = -1
        /\ Failures' = Append(Failures, posts'[Len(posts')].unit)
        /\ Position' = Position + 1
        /\ \A u \in PostedUnits' :
            Occurrences(Failures', u) =
                Occurrences(Failures, u) + (IF u = posts'[Len(posts')].unit THEN 1 ELSE 0)]_vars

\* C4 witness: the loader finished normally after a unit timed out and a later
\* unit was POSTed; the timed-out unit is in errors once.
C4_Witness ==
    /\ prog = "loader" /\ pc = "exited" /\ last = "finish"
    /\ Len(posts) >= 2
    /\ posts[1].outcome = "timeout"
    /\ Occurrences(errors, posts[1].unit) = 1

\* C5 as stated: a connection failure is handled like a timeout in both
\* scripts: the process goes on with the loop and the unit is the latest entry
\* of the list of failures.
C5_ConnectionFailureIsContained ==
    last = "connection" =>
        /\ pc = "loop"
        /\ exitStatus = -1
        /\ Failures # <<>>
        /\ Failures[Len(Failures)] = posts[Len(posts)].unit

\* C6 as stated: a success response without a `total` field counts as
\* total = 0 in both scripts: the process goes on with the loop, the loader
\* writes no file for the unit and the sweep records 0.
C6_AbsentTotalCountsAsZero ==
    last = "no_total" =>
        /\ pc = "loop"
        /\ exitStatus = -1
        /\ prog = "loader" =>
            (fileName(posts[Len(posts)].unit) \in DOMAIN files) =
                (fileName(posts[Len(posts)].unit) \in prior.files)
        /\ prog = "sweep" =>
            \E st \in DOMAIN results :
                /\ results[st] # <<>>
                /\ results[st][Len(results[st])] = posts[Len(posts)].unit \o <<0>>

\* The rows of results, each named by its status and its place in the bucket.
ResultCells ==
    UNION {{<<st, i>> : i \in 1..Len(results[st])} : st \in DOMAIN results}

\* The unit a row of results was recorded for.
CellUnit(c) == SubSeq(results[c[1]][c[2]], 1, 3)

\* C7: in the condition sweep, after every iteration of the loop, the rows of
\* all status buckets and the timeouts together are as many as the POSTs made,
\* the timeouts are the units whose POST timed out, in order, and every other
\* POSTed unit has its row in a bucket: each POST is in exactly one of them.
C7_EveryDispatchAccountedOnce ==
    (prog = "sweep" /\ pc = "loop") =>
        /\ Cardinality(ResultCells) + Len(timeouts) = Len(posts)
        /\ Len(posts) = m - 1
        /\ \A i \in 1..Len(timeouts) :
            timeouts[i] = SelectSeq(posts, LAMBDA p : p.outcome = "timeout")[i].unit
        /\ \A u \in PostedUnits :
            Cardinality({c \in ResultCells : CellUnit(c) = u})
                + Occurrences(timeouts, u) = TimesPosted(u)

\* C7 witness: the loop has recorded a timeout and rows under two different
\* statuses, one of them twice.
C7_Witness ==
    /\ prog = "sweep" /\ pc = "loop"
    /\ Len(timeouts) = 1
    /\ Cardinality(DOMAIN results) = 2

\* The POSTs of this process that ended in a recorded failure.
FailedPosts ==
    {i \in 1..Len(posts) : posts[i].outcome \in {"timeout", "connection", "not_ok"}}

\* C8 as stated: the summary reports E errors out of N records run, E the
\* number of failed POSTs and N the number of units POSTed in the run; and two
\* records in a narrow sweep, both answered with total = 0, leave no new file
\* and a summary of 0 errors out of 2 records run.
C8_SummaryCountsDispatchedUnits ==
    (prog = "loader" /\ summaries # <<>>) =>
        /\ summaries[1][1].num_of_errors = Cardinality(FailedPosts)
        /\ summaries[1][1].total_runs = Len(posts)
        /\ (/\ ~extensive
            /\ Len(records) = 2
            /\ Len(posts) = 2
            /\ \A i \in 1..2 : posts[i].outcome = "empty") =>
                /\ DOMAIN files = prior.files
                /\ summaries[1] = <<[num_of_errors |-> 0, total_runs |-> 2]>>

\* C9 as stated: however the loader terminates, exit_handler has run exactly
\* once, and it printed nothing when no unit ran.
C9_ExitHookFiresOnce ==
    (prog = "loader" /\ pc = "exited") =>
        /\ Len(summaries) = 1
        /\ total_runs = 0 => summaries[1] = <<>>

\* C10 as stated: without the destination directory, the loader and the
\* sweep terminate with a non-zero exit status and have POSTed nothing.
C10_MissingDestinationIsUsageError ==
    (/\ pc = "exited"
     /\ \/ prog = "loader" /\ results_directory = ""
        \/ prog = "sweep" /\ ~directoryArg) =>
        /\ exitStatus # 0
        /\ posts = <<>>

\* C11: every unit the loader reaches is skipped (no POST) exactly when the
\* skip flag is set and a file exists at <recordName>_r<radius>_z<zipCode>.csv
\* in the results directory at that moment; with the flag off no unit is
\* skipped.
C11_SkippedIffFlagAndFile ==
    [][(prog = "loader" /\ pc = "loop" /\ total_runs' = total_runs + 1) =>
        LET u == UnitAt(extensive, records, n)
            path == u.record \o "_r" \o u.radius \o "_z" \o u.zipCode \o ".csv"
        IN  /\ (posts' = posts) <=> (skip /\ path \in DOMAIN files)
            /\ (posts' = posts) <=> (last' = "skip")
            /\ ~skip => Len(posts') = Len(posts) + 1]_vars

\* A unit was skipped in a run with the flag set, and a later unit of the same
\* run, without a file, was POSTed.
C11_Witness ==
    /\ prog = "loader"
    /\ skip
    /\ last = "ok"
    /\ n = 3
    /\ Len(posts) = 1
    /\ total_runs = 2

\* C12: the loader dispatches in the order of three nested loops: zip codes
\* in list order outside, radii in list order inside, the sorted records
\* innermost. Of two dispatches the one at the earlier list position of the
\* zip code comes first, then the one at the earlier radius, then the earlier
\* record; and a second run over the same records in the same mode reaches
\* the same unit at the same place of the order.
C12_DispatchInNestedLoopOrder ==
    [][(prog = "loader" /\ Len(posts') = Len(posts) + 1) =>
        LET K == Len(records)
            R == Len(radii(extensive))
            ZipIx(k) == ((k - 1) \div (R * K)) + 1
            RadIx(k) == (((k - 1) \div K) % R) + 1
            RecIx(k) == ((k - 1) % K) + 1
            new == posts'[Len(posts')]
            b == new.at
        IN  /\ new.unit.zipCode = zipCodes(extensive)[ZipIx(b)]
            /\ new.unit.radius = radii(extensive)[RadIx(b)]
            /\ new.unit.record = records[RecIx(b)]
            \* after the dispatch before it, hence after every earlier one
            /\ posts # <<>> =>
                  LET a == posts[Len(posts)].at
                  IN  \/ ZipIx(a) < ZipIx(b)
                      \/ ZipIx(a) = ZipIx(b) /\ RadIx(a) < RadIx(b)
                      \/ ZipIx(a) = ZipIx(b) /\ RadIx(a) = RadIx(b)
                         /\ RecIx(a) < RecIx(b)
            /\ \A j \in 1..Len(prior.order) :
                  prior.order[j].at = b => prior.order[j].unit = new.unit]_vars

\* An extensive sweep has gone through the three radii of the first zip code
\* and POSTed the first unit of the second zip code.
C12_Witness ==
    /\ prog = "loader"
    /\ extensive
    /\ Len(records) = 1
    /\ Len(posts) = 4
    /\ posts[3].unit.zipCode = "25438"
    /\ posts[3].unit.radius = "100"
    /\ posts[4].unit.zipCode = "26506"
    /\ posts[4].unit.radius = "20"

\* C13: when a loader POST is answered with a success status and a body with
\* total = 0, no file is created or written for the unit; when total = n > 0
\* and the body has n entries, the unit's CSV holds exactly n rows, the
\* identifier of one entry per row, in the order of the response.
C13_CsvRowsFollowResponse ==
    [][(/\ prog = "loader"
        /\ Len(posts') = Len(posts) + 1
        /\ answer'.status = OkStatus
        /\ answer'.body.parse
        /\ answer'.body.hasTotal) =>
        LET u == posts'[Len(posts')].unit
            body == answer'.body
            path == fileName(u)
        IN  /\ body.total = 0 => files' = files
            /\ (body.total > 0 /\ body.hasEntry /\ Len(body.entry) = body.total) =>
                  /\ path \in DOMAIN files'
                  /\ Len(files'[path]) = body.total
                  /\ \A i \in 1..body.total : files'[path][i] = <<body.entry[i]>>]_vars

\* A POST was just answered with total = 2 and two entries, and the unit's
\* file holds their two identifiers in order.
C13_Witness ==
    /\ prog = "loader"
    /\ last = "ok"
    /\ answer.body.total = 2
    /\ Len(answer.body.entry) = 2
    /\ fileName(posts[Len(posts)].unit) \in DOMAIN files
    /\ files[fileName(posts[Len(posts)].unit)] = <<<<1>>, <<2>>>>

\* C14: whatever was dispatched before, the document the loader POSTs for a
\* unit is the record's own entries, unchanged and in order, followed by
\* exactly one Parameters component whose zipCode and travelRadius are the
\* unit's; nothing of an earlier request is carried over, so the same unit
\* always gets the same document.
C14_RequestIsRecordPlusOneParameters ==
    (prog = "loader" /\ request # NoRequest) =>
        LET u == posts[Len(posts)].unit
            base == RecordDocument(u.record)
            k == Len(base.entry)
        IN  /\ request.resourceType = base.resourceType
            /\ request.type = "collection"
            /\ Len(request.entry) = k + 1
            /\ \A i \in 1..k : request.entry[i] = base.entry[i]
            /\ Cardinality({i \in 1..Len(request.entry) :
                    request.entry[i].resourceType = "Parameters"}) = 1
            /\ request.entry[k + 1].resourceType = "Parameters"
            /\ request.entry[k + 1].parameter =
                    <<[name |-> "zipCode", valueString |-> u.zipCode],
                      [name |-> "travelRadius", valueString |-> u.radius]>>

\* In a re-run, after an earlier dispatch, a unit the first run had already
\* dispatched is POSTed again.
C14_Witness ==
    /\ prog = "loader"
    /\ run = 2
    /\ Len(posts) = 2
    /\ posts[2].unit \in prior.posts
    /\ request # NoRequest
    /\ Len(request.entry) = 2

\* C15: in either script, after a POST is answered with a non-success status
\* the unit stands in the accumulator under that status code and the run
\* goes on with the next unit.
C15_NonSuccessRecordedUnderStatus ==
    (answer # NoAnswer /\ answer.status # OkStatus) =>
        LET u == posts[Len(posts)].unit
        IN  /\ pc = "loop"
            /\ prog = "sweep" =>
                  /\ answer.status \in DOMAIN results
                  /\ \E i \in 1..Len(results[answer.status]) :
                        SubSeq(results[answer.status][i], 1, 3) = u
            /\ prog = "loader" =>
                  /\ errors # <<>>
                  /\ errorEntry(u) = [x \in DOMAIN errorEntry(u) |->
                                        errors[Len(errors)][x]]
                  /\ "status" \in DOMAIN errors[Len(errors)]
                  /\ errors[Len(errors)]["status"] = answer.status

\* C16: once a sweep has reached the emission of its report, a workbook has
\* been written, it has a Timeouts sheet exactly when some dispatch timed
\* out (also when every dispatch did), and that sheet holds, under its
\* header, one row of code, display and system per timed-out unit.
C16_TimeoutsSheetIffTimeouts ==
    (prog = "sweep" /\ last \in {"finish", "emit_failed"}) =>
        /\ workbook # <<>>
        /\ (workbook[1].Timeouts # <<>>) <=> (Len(timeouts) > 0)
        /\ Len(timeouts) > 0 =>
              workbook[1].Timeouts = <<<<"Code", "Display", "System">>>> \o timeouts

\* C17: the condition sweep dispatches exactly the entries of the list whose
\* categories include the requested cancer type, each once and in the order
\* of the list; an entry of other categories is never dispatched. A run that
\* reaches the report has dispatched all of them.
C17_SweepDispatchesMatchingEntries ==
    prog = "sweep" =>
        LET matches(e) == \E k \in 1..Len(e.cancerType) : e.cancerType[k] = cancer_type
            expected == SelectSeq(data, matches)
        IN  /\ Len(posts) <= Len(expected)
            /\ \A i \in 1..Len(posts) :
                  posts[i].unit = <<expected[i].code, expected[i].display,
                                    expected[i].system>>
            /\ last \in {"finish", "emit_failed"} => Len(posts) = Len(expected)

\* A sweep for breast over a list of a lung entry, an entry of both
\* categories and the lung entry again has finished with one dispatch.
C17_Witness ==
    /\ prog = "sweep"
    /\ last = "finish"
    /\ cancer_type = "breast"
    /\ Len(data) = 3
    /\ data[1].code = "C1"
    /\ data[2].code = "C2"
    /\ data[3].code = "C1"
    /\ Len(posts) = 1
    /\ posts[1].unit = <<"C2", "D2", "S2">>

\* The loader step opens the unit's CSV for writing (open(fileName, 'w+')).
OpensFile ==
    /\ prog = "loader"
    /\ Len(posts') = Len(posts) + 1
    /\ posts'[Len(posts')].outcome \in {"results", "no_entry"}

\* C18 as stated: whether skip is enabled or not, the loader opens a unit's
\* CSV for writing only when no file exists at that path, so that a path is
\* written at most once in a run and an existing file is never overwritten
\* or truncated.
C18_ReportFilesAreCreateOnce ==
    [][OpensFile =>
        /\ fileName(posts'[Len(posts')].unit) \notin DOMAIN files
        /\ \A f \in DOMAIN files : f \in DOMAIN files' /\ files'[f] = files[f]]_vars

\* C18, amended: with skip enabled the loader opens a unit's CSV for writing
\* only when no file exists at that path, and leaves every existing file as
\* it is; with skip disabled an existing file at the path is truncated and
\* holds the rows of the new answer afterwards.
C18_CreateOnceWhenSkipEnabled ==
    [][OpensFile =>
        LET path == fileName(posts'[Len(posts')].unit)
        IN  /\ skip =>
                  /\ path \notin DOMAIN files
                  /\ \A f \in DOMAIN files :
                        f \in DOMAIN files' /\ files'[f] = files[f]
            /\ ~skip =>
                  /\ path \in DOMAIN files'
                  /\ Len(files'[path]) = Len(answer'.body.entry)
                  /\ \A f \in DOMAIN files \ {path} :
                        f \in DOMAIN files' /\ files'[f] = files[f]]_vars

\* A re-run with skip enabled has skipped the unit whose file the first run
\* wrote and has just written the file of the other unit.
C18_Witness ==
    /\ prog = "loader"
    /\ skip
    /\ run = 2
    /\ Len(records) = 2
    /\ last = "ok"
    /\ Len(posts) = 1
    /\ posts[1].outcome = "results"
    /\ posts[1].at = 2
    /\ fileName(UnitAt(extensive, records, 1)) \in prior.files
    /\ Cardinality(DOMAIN files) = 2

\* C19: when the processing of a unit raises a failure that no handler
\* classifies (a body that does not parse, a body without the field read, in
\* the sweep also a failed connection), the process ends at that unit with
\* no workbook written, and from then on it dispatches nothing, writes no
\* CSV and no workbook.
C19_UnclassifiedFailureEndsRun ==
    [][/\ (/\ Len(posts') = Len(posts) + 1
           /\ \/ /\ prog = "loader"
                 /\ answer'.status = OkStatus
                 /\ \/ ~answer'.body.parse
                    \/ ~answer'.body.hasTotal
                    \/ answer'.body.total > 0 /\ ~answer'.body.hasEntry
              \/ /\ prog = "sweep"
                 /\ \/ answer' # NoAnswer /\ ~answer'.body.parse
                    \/ posts'[Len(posts')].outcome = "connection")
          => (pc' = "exited" /\ exitStatus' = 1 /\ workbook' = <<>>)
       /\ (pc = "exited" /\ exitStatus = 1 /\ run' = run)
          => (posts' = posts /\ files' = files /\ workbook' = workbook)]_vars

\* The loader died on a body that does not parse at the first of two units.
C19_Witness ==
    /\ prog = "loader"
    /\ Len(records) = 2
    /\ last = "bad_body"
    /\ pc = "exited"
    /\ exitStatus = 1
    /\ Len(posts) = 1
    /\ n = 1

\* C20: a loader iteration that skips its unit, or whose POST times out,
\* cannot connect or is answered with a non-success status, leaves every
\* file of the results directory as it was; a skipped unit moreover issues
\* no POST and adds nothing to errors.
C20_FailedOrSkippedUnitLeavesFiles ==
    [][(/\ prog = "loader"
        /\ pc = "loop"
        /\ total_runs' = total_runs + 1
        /\ \/ posts' = posts
           \/ posts'[Len(posts')].outcome \in {"timeout", "connection", "not_ok"}) =>
        /\ files' = files
        /\ posts' = posts =>
              /\ request' = NoRequest
              /\ errors' = errors]_vars

\* With a file already written for the first unit, the POST of the second
\* unit was answered with a non-success status and a body that lists studies.
C20_Witness ==
    /\ prog = "loader"
    /\ Len(records) = 2
    /\ last = "not_ok"
    /\ n = 3
    /\ answer.body.total > 0
    /\ answer.body.hasEntry
    /\ DOMAIN files = {fileName(UnitAt(extensive, records, 1))}

====
